---- MODULE Spec2Model ----
(***************************************************************************)
(* Scene session controller of the 3D-asset viewer                         *)
(* (src/src/components/babylon-viewer.tsx, the BabylonViewer component     *)
(* that starts at line 855).                                               *)
(*                                                                         *)
(* The component is driven by React: a change of the props modelUrl /      *)
(* modelFileExtension re-runs the model load effect, a change of           *)
(* renderingMode or of the state isCurrentModelActuallyLoaded re-runs the  *)
(* rendering-mode effect, and the loader's promise settles later through   *)
(* the .then / .catch handlers of the load effect.  Each of these is one   *)
(* action.  Lengths are in hundredths of a scene unit, durations in        *)
(* milliseconds, alpha in percent.                                         *)
(***************************************************************************)
EXTENDS Integers, Sequences, FiniteSets, TLC

\* ------------------------------------------------------------------ bounds
\* Number of load requests (runs of the model load effect after mount).
MaxRequests == 2
\* Number of times in a row a routine is run on its own.
MaxTrialRuns == 3
\* Number of animation groups of a container animation initialisation is
\* run on.
MaxGroups == 2
MaxNodes == 3

\* --------------------------------------------------------- string helpers
StartsWith(s, p) == Len(s) >= Len(p) /\ SubSeq(s, 1, Len(p)) = p

EndsWith(s, p) == Len(s) >= Len(p) /\ SubSeq(s, Len(s) - Len(p) + 1, Len(s)) = p

\* String.prototype.lastIndexOf('/') + 1: the length of the prefix that ends
\* with the last '/', 0 when there is none.
RECURSIVE LastSlashEnd(_, _)
LastSlashEnd(s, i) ==
  IF i = 0 THEN 0
  ELSE IF SubSeq(s, i, i) = "/" THEN i
  ELSE LastSlashEnd(s, i - 1)

\* ------------------------------------------------------------ the assets
\* What the (external) loader produces for each source the model uses.  An
\* asset is the content of an AssetContainer: meshes, materials, animation
\* groups and root nodes.
NoUrl == "null"
NoExt == "null"
UrlGlb == "data:model/gltf-binary;base64,Z2xi"
UrlObj == "data:application/octet-stream;base64,b2Jq"
UrlGltf == "https://host/models/empty.gltf"
UrlHidden == "https://host/models/hidden.glb"
UrlRig == "https://host/models/rig.glb"
UrlPoint == "https://host/models/point.glb"

\* PBRMaterial.PBR_OPAQUE and PBRMaterial.PBR_ALPHABLEND of the engine.
PBR_OPAQUE == "PBR_OPAQUE"
PBR_ALPHABLEND == "PBR_ALPHABLEND"

Mat(kind, wireframe, unlit, disableLighting, alpha, transparencyMode, subs) ==
  [kind |-> kind, wireframe |-> wireframe, unlit |-> unlit,
   disableLighting |-> disableLighting, alpha |-> alpha,
   transparencyMode |-> transparencyMode, backFaceCulling |-> TRUE,
   dirty |-> FALSE, subMaterials |-> subs]

MeshOf(name, visible, enabled, lo, hi, material) ==
  [name |-> name, isVisible |-> visible, isEnabled |-> enabled,
   minimumWorld |-> lo, maximumWorld |-> hi, material |-> material]

NodeOf(id, name, type, children) ==
  [uniqueId |-> id, name |-> name, type |-> type, children |-> children]

AssetGlb ==
  [meshes |-> << MeshOf("Cube", TRUE, TRUE, <<-100, 0, -100>>, <<100, 200, 100>>, "pbr"),
                 MeshOf("Glass", FALSE, TRUE, <<-500, -300, -500>>, <<500, 300, 500>>, "blend"),
                 MeshOf("__root__", TRUE, TRUE, <<0, 0, 0>>, <<0, 0, 0>>, "none") >>,
   materials |-> [m \in {"pbr", "blend"} |->
                    IF m = "pbr"
                    THEN Mat("PBR", FALSE, TRUE, FALSE, 100, PBR_OPAQUE, << >>)
                    ELSE Mat("PBR", TRUE, FALSE, FALSE, 50, PBR_ALPHABLEND, << >>)],
   animationGroups |-> << [to |-> 120, frameRate |-> 30, loopAnimation |-> FALSE] >>,
   rootNodes |-> << 1 >>,
   nodes |-> [n \in 1..3 |->
               CASE n = 1 -> NodeOf(11, "__root__", "TransformNode", << 2, 3 >>)
                 [] n = 2 -> NodeOf(12, "Cube", "Mesh", << >>)
                 [] n = 3 -> NodeOf(13, "Glass", "Mesh", << >>)]]

AssetObj ==
  [meshes |-> << MeshOf("Body", TRUE, TRUE, <<0, 100, 0>>, <<400, 400, 200>>, "multi"),
                 MeshOf("Bare", TRUE, TRUE, <<0, 100, 0>>, <<100, 200, 100>>, "none") >>,
   materials |-> [m \in {"multi", "stdA", "stdB"} |->
                    CASE m = "multi" -> Mat("Multi", FALSE, FALSE, FALSE, 100, PBR_OPAQUE,
                                            << "stdA", "null", "stdB" >>)
                      [] m = "stdA" -> Mat("Standard", FALSE, FALSE, FALSE, 80, PBR_OPAQUE, << >>)
                      [] m = "stdB" -> Mat("Standard", TRUE, FALSE, TRUE, 100, PBR_OPAQUE, << >>)],
   animationGroups |-> << >>,
   rootNodes |-> << 1, 2 >>,
   nodes |-> [n \in 1..2 |->
               CASE n = 1 -> NodeOf(21, "Body", "Mesh", << >>)
                 [] n = 2 -> NodeOf(22, "", "Mesh", << >>)]]

AssetGltf ==
  [meshes |-> << >>,
   materials |-> [m \in {} |-> Mat("PBR", FALSE, FALSE, FALSE, 100, PBR_OPAQUE, << >>)],
   animationGroups |-> << >>,
   rootNodes |-> << >>,
   nodes |-> << >>]

\* A container whose meshes are there but not shown: one invisible, one
\* disabled.
AssetHidden ==
  [meshes |-> << MeshOf("Shell", FALSE, TRUE, <<-200, -50, -200>>, <<200, 50, 200>>, "none"),
                 MeshOf("Proxy", TRUE, FALSE, <<0, 0, 0>>, <<100, 100, 100>>, "none") >>,
   materials |-> [m \in {} |-> Mat("PBR", FALSE, FALSE, FALSE, 100, PBR_OPAQUE, << >>)],
   animationGroups |-> << >>,
   rootNodes |-> << 1, 2 >>,
   nodes |-> [n \in 1..2 |->
               CASE n = 1 -> NodeOf(31, "Shell", "Mesh", << >>)
                 [] n = 2 -> NodeOf(32, "Proxy", "Mesh", << >>)]]

\* A container with two animation groups of two seconds each, the first
\* sampled at 60 frames per second, the second at 30.
AssetRig ==
  [meshes |-> << MeshOf("Arm", TRUE, TRUE, <<0, 0, 0>>, <<100, 300, 100>>, "none") >>,
   materials |-> [m \in {} |-> Mat("PBR", FALSE, FALSE, FALSE, 100, PBR_OPAQUE, << >>)],
   animationGroups |-> << [to |-> 120, frameRate |-> 60, loopAnimation |-> FALSE],
                          [to |-> 60, frameRate |-> 30, loopAnimation |-> FALSE] >>,
   rootNodes |-> << 1 >>,
   nodes |-> [n \in 1..1 |-> NodeOf(41, "Arm", "Mesh", << >>)]]

\* A container of degenerate geometry: one mesh whose world box is a point.
AssetPoint ==
  [meshes |-> << MeshOf("Dot", TRUE, TRUE, <<50, 20, 50>>, <<50, 20, 50>>, "none") >>,
   materials |-> [m \in {} |-> Mat("PBR", FALSE, FALSE, FALSE, 100, PBR_OPAQUE, << >>)],
   animationGroups |-> << >>,
   rootNodes |-> << 1 >>,
   nodes |-> [n \in 1..1 |-> NodeOf(61, "Dot", "Mesh", << >>)]]

Asset(url) ==
  CASE url = UrlGlb -> AssetGlb
    [] url = UrlPoint -> AssetPoint
    [] url = UrlRig -> AssetRig
    [] url = UrlObj -> AssetObj
    [] url = UrlHidden -> AssetHidden
    [] OTHER -> AssetGltf

\* The (modelUrl, modelFileExtension) pairs the page hands to the viewer.
Sources ==
  { [url |-> NoUrl, ext |-> NoExt],
    [url |-> UrlGlb, ext |-> ".glb"],
    [url |-> UrlObj, ext |-> ".obj"],
    [url |-> UrlGltf, ext |-> ".gltf"],
    [url |-> UrlHidden, ext |-> ".glb"] }

RenderingModes == {"shaded", "non-shaded", "wireframe"}

\* What the loader's promise can reject with: an Error carrying a message, an
\* Error whose message is empty, or a plain (non-empty) string.
LoadErrors ==
  { [type |-> "Error", text |-> "Unable to load from file"],
    [type |-> "Error", text |-> ""],
    [type |-> "string", text |-> "importer failed"] }

\* ------------------------------------------------------------ the camera
\* camera.radius = 10, in hundredths.
DefaultRadius == 1000
\* grid.position.y = min.y - 0.01, in hundredths.
GridOffset == 1
\* let detectedFrameRate = 60
DefaultFrameRate == 60
\* camera.lowerRadiusLimit = 0.1 and camera.upperRadiusLimit = 20000, in
\* hundredths.
LowerRadiusLimit == 10
UpperRadiusLimit == 2000000

\* The pose internalResetCameraAndEnvironment gives the camera (and the one
\* the ArcRotateCamera is constructed with).
DefaultCamera ==
  [target |-> <<0, 0, 0>>, radius |-> DefaultRadius, alpha |-> "-PI/2", beta |-> "PI/2.5"]

\* internalResetCameraAndEnvironment: scene and camera exist for the whole
\* life of the session, so the early return is never taken.  Returns the
\* pair (camera, grid position y).
ResetRadiusKept(cam) ==
  << [cam EXCEPT !.target = <<0, 0, 0>>, !.alpha = "-PI/2", !.beta = "PI/2.5"], 0 >>

internalResetCameraAndEnvironment(cam) ==
  << [cam EXCEPT !.target = <<0, 0, 0>>, !.radius = DefaultRadius,
                 !.alpha = "-PI/2", !.beta = "PI/2.5"], 0 >>

Min(a, b) == IF a <= b THEN a ELSE b

Max(a, b) == IF a >= b THEN a ELSE b

\* Math.sqrt, rounded down to the unit of length.
ISqrt(n, upper) == CHOOSE r \in 0..upper : r * r <= n /\ (r + 1) * (r + 1) > n

\* Vector3.Minimize / Vector3.Maximize folded over the meshes' world boxes.
RECURSIVE MinimumOver(_, _)
MinimumOver(meshes, i) ==
  IF i = 1 THEN meshes[1].minimumWorld
  ELSE LET m == MinimumOver(meshes, i - 1)
           b == meshes[i].minimumWorld
       IN  << Min(m[1], b[1]), Min(m[2], b[2]), Min(m[3], b[3]) >>

RECURSIVE MaximumOver(_, _)
MaximumOver(meshes, i) ==
  IF i = 1 THEN meshes[1].maximumWorld
  ELSE LET m == MaximumOver(meshes, i - 1)
           b == meshes[i].maximumWorld
       IN  << Max(m[1], b[1]), Max(m[2], b[2]), Max(m[3], b[3]) >>

\* container.meshes.filter(...) of the .then handler.
allModelMeshes(meshes) ==
  SelectSeq(meshes, LAMBDA m : /\ m.name # "grid"
                               /\ ~StartsWith(m.name, "__")
                               /\ ~EndsWith(m.name, "__"))

visibleEnabledMeshes(meshes) ==
  SelectSeq(allModelMeshes(meshes), LAMBDA m : m.isVisible /\ m.isEnabled)

\* camera.zoomOn(meshes, true) of the engine: the radius becomes the distance
\* between the corners of the union box and the target its centre; alpha and
\* beta are kept.
ZoomOnFromCurrentRadius(cam, meshes) ==
  LET lo == MinimumOver(meshes, Len(meshes))
      hi == MaximumOver(meshes, Len(meshes))
      dx == hi[1] - lo[1]
      dy == hi[2] - lo[2]
      dz == hi[3] - lo[3]
  IN  [cam EXCEPT !.radius = cam.radius + ISqrt(dx * dx + dy * dy + dz * dz, dx + dy + dz),
                  !.target = << (lo[1] + hi[1]) \div 2, (lo[2] + hi[2]) \div 2,
                                (lo[3] + hi[3]) \div 2 >>]

zoomOn(cam, meshes) ==
  LET lo == MinimumOver(meshes, Len(meshes))
      hi == MaximumOver(meshes, Len(meshes))
      dx == hi[1] - lo[1]
      dy == hi[2] - lo[2]
      dz == hi[3] - lo[3]
  IN  [cam EXCEPT !.radius = ISqrt(dx * dx + dy * dy + dz * dz, dx + dy + dz),
                  !.target = << (lo[1] + hi[1]) \div 2, (lo[2] + hi[2]) \div 2,
                                (lo[3] + hi[3]) \div 2 >>]

\* The radius limits set on the camera by the setup effect, which the engine
\* enforces when it updates the camera for a rendered frame.
checkLimits(cam) ==
  [cam EXCEPT !.radius = Min(UpperRadiusLimit, Max(LowerRadiusLimit, cam.radius))]

\* The camera framing of the .then handler: the pair (camera, grid y).  An
\* empty allModelMeshes and an empty visibleEnabledMeshes take the same
\* branch body; every mesh has a bounding box, so min.x is never Infinity
\* once the filtered list is non-empty.
FramePoseKeptWhenEmpty(cam, meshes) ==
  LET ve == visibleEnabledMeshes(meshes)
  IN  IF Len(ve) > 0
      THEN << zoomOn(cam, ve), MinimumOver(ve, Len(ve))[2] - GridOffset >>
      ELSE << cam, 0 >>

\* A framing whose grid goes under every model mesh, shown or not.
FrameGridUnderAllMeshes(cam, meshes) ==
  LET ve == visibleEnabledMeshes(meshes)
      all == allModelMeshes(meshes)
  IN  IF Len(ve) > 0
      THEN << zoomOn(cam, ve), MinimumOver(all, Len(all))[2] - GridOffset >>
      ELSE internalResetCameraAndEnvironment(cam)

FrameOnLoad(cam, meshes) ==
  LET ve == visibleEnabledMeshes(meshes)
  IN  IF Len(ve) > 0
      THEN << zoomOn(cam, ve), MinimumOver(ve, Len(ve))[2] - GridOffset >>
      ELSE internalResetCameraAndEnvironment(cam)

\* --------------------------------------------------------- the materials
PreservesAlpha(mat) == mat.kind = "PBR" /\ mat.transparencyMode # PBR_OPAQUE

ShadedKeepsWireframe(newRenderingMode, mat) ==
  LET a == IF PreservesAlpha(mat) THEN mat ELSE [mat EXCEPT !.alpha = 100]
      lit(m, off) ==
        IF m.kind = "PBR" THEN [m EXCEPT !.unlit = off]
        ELSE IF m.kind = "Standard" THEN [m EXCEPT !.disableLighting = off]
        ELSE m
      b == CASE newRenderingMode = "shaded" -> lit(a, FALSE)
             [] newRenderingMode = "non-shaded" -> lit([a EXCEPT !.wireframe = FALSE], TRUE)
             [] newRenderingMode = "wireframe" -> lit([a EXCEPT !.wireframe = TRUE], TRUE)
  IN  [b EXCEPT !.dirty = TRUE]

processSingleMaterial(newRenderingMode, mat) ==
  LET a == IF PreservesAlpha(mat) THEN mat ELSE [mat EXCEPT !.alpha = 100]
      lit(m, off) ==
        IF m.kind = "PBR" THEN [m EXCEPT !.unlit = off]
        ELSE IF m.kind = "Standard" THEN [m EXCEPT !.disableLighting = off]
        ELSE m
      b == CASE newRenderingMode = "shaded" -> lit([a EXCEPT !.wireframe = FALSE], FALSE)
             [] newRenderingMode = "non-shaded" -> lit([a EXCEPT !.wireframe = FALSE], TRUE)
             [] newRenderingMode = "wireframe" -> lit([a EXCEPT !.wireframe = TRUE], TRUE)
  IN  [b EXCEPT !.dirty = TRUE]

\* The materials processSingleMaterial reaches: the material of every
\* non-grid mesh, or its non-null sub-materials when it is a MultiMaterial.
StyledMaterials(meshes, mats) ==
  UNION { IF meshes[i].name = "grid" \/ meshes[i].material = "none" THEN {}
          ELSE IF mats[meshes[i].material].kind = "Multi"
               THEN { mats[meshes[i].material].subMaterials[j] :
                        j \in DOMAIN mats[meshes[i].material].subMaterials } \ {"null"}
               ELSE { meshes[i].material } : i \in DOMAIN meshes }

\* applyRenderingModeStyle(newRenderingMode, container, currentModelFileExtension)
\* for a non-null container: the container's materials afterwards.
applyRenderingModeStyle(newRenderingMode, meshes, mats, currentModelFileExtension) ==
  IF currentModelFileExtension = ".obj" /\ newRenderingMode \in {"non-shaded", "wireframe"}
  THEN mats
  ELSE [m \in DOMAIN mats |->
          IF m \in StyledMaterials(meshes, mats)
          THEN processSingleMaterial(newRenderingMode, mats[m])
          ELSE mats[m]]

\* container.materials.forEach(mat => mat.backFaceCulling = false)
DoubleSided(mats) ==
  [m \in DOMAIN mats |->
     IF mats[m].kind = "Multi" THEN mats[m] ELSE [mats[m] EXCEPT !.backFaceCulling = FALSE]]

\* ----------------------------------------------------- the error message
ToUpperCase(ext) ==
  CASE ext = ".obj" -> ".OBJ"
    [] ext = ".glb" -> ".GLB"
    [] ext = ".gltf" -> ".GLTF"
    [] OTHER -> ext

DataUrlHint(ext) ==
  " For " \o ToUpperCase(ext) \o " files loaded from local disk, any associated material files (like .mtl) or external textures are typically not packaged within the data URI and may not load. Consider using GLB format for self-contained models."

RemoteUrlHint(ext) ==
  " For " \o ToUpperCase(ext) \o " files from a URL, ensure any associated material files and textures are accessible (usually in the same directory or correctly referenced)."

\* error.message: undefined (falsy, here "") for a value that is no Error.
ErrorMessage(error) == IF error.type = "Error" THEN error.text ELSE ""

MessageWithoutFallback(error, ext, isDataUrl) ==
  LET base == IF error.type = "string" THEN error.text ELSE ErrorMessage(error)
  IN  IF ext = ".obj" /\ isDataUrl THEN base \o DataUrlHint(ext)
      ELSE IF ext = ".obj" /\ ~isDataUrl THEN base \o RemoteUrlHint(ext)
      ELSE base

\* A message that carries the local-disk hint for every embedded payload,
\* whatever the format.
MessageHintForEveryFormat(error, ext, isDataUrl) ==
  LET base == IF ErrorMessage(error) # "" THEN ErrorMessage(error)
              ELSE IF error.type = "string" THEN error.text
              ELSE "Unknown error during model loading."
  IN  IF isDataUrl THEN base \o DataUrlHint(ext)
      ELSE IF ext = ".obj" /\ ~isDataUrl THEN base \o RemoteUrlHint(ext)
      ELSE base

\* The userMessage the .catch handler builds from the rejection value.
userMessage(error, ext, isDataUrl) ==
  LET base == IF ErrorMessage(error) # "" THEN ErrorMessage(error)
              ELSE IF error.type = "string" THEN error.text
              ELSE "Unknown error during model loading."
  IN  IF ext = ".obj" /\ isDataUrl THEN base \o DataUrlHint(ext)
      ELSE IF ext = ".obj" /\ ~isDataUrl THEN base \o RemoteUrlHint(ext)
      ELSE base

\* ---------------------------------------------------------- the hierarchy
IsHelperName(name) ==
  \/ name = "grid"
  \/ name = "camera"
  \/ StartsWith(name, "light1")
  \/ StartsWith(name, "light2")

IsInternalName(name) == StartsWith(name, "__") /\ EndsWith(name, "__")

\* The filter of buildNodeHierarchy's children and of container.rootNodes.
Admitted(node) ==
  /\ ~IsHelperName(node.name)
  /\ node.type \notin {"HemisphericLight", "ArcRotateCamera"}
  /\ (~IsInternalName(node.name) \/ Len(node.children) > 0 \/ node.type = "Mesh")

nodeType(node) ==
  IF node.type = "Mesh" THEN "Mesh"
  ELSE IF node.type \in {"TransformNode", "InstancedMesh", "AbstractMesh"} THEN "TransformNode"
  ELSE "Node"

RECURSIVE buildNodeHierarchy(_, _)
buildNodeHierarchy(nodes, n) ==
  LET kept == SelectSeq(nodes[n].children, LAMBDA c : Admitted(nodes[c]))
  IN  [id |-> nodes[n].uniqueId,
       name |-> IF nodes[n].name # "" THEN nodes[n].name
                ELSE "Unnamed " \o nodeType(nodes[n]),
       type |-> nodeType(nodes[n]),
       children |-> [i \in 1..Len(kept) |-> buildNodeHierarchy(nodes, kept[i])]]

hierarchyRoots(asset) ==
  LET kept == SelectSeq(asset.rootNodes, LAMBDA r : Admitted(asset.nodes[r]))
      built == [i \in 1..Len(kept) |-> buildNodeHierarchy(asset.nodes, kept[i])]
  IN  SelectSeq(built, LAMBDA h : ~(/\ IsInternalName(h.name)
                                    /\ Len(h.children) = 0
                                    /\ h.type # "Mesh"))

\* A collector that looks at the top level of the hierarchy only.
TopLevelMeshIds(nodes) ==
  LET meshes == SelectSeq(nodes, LAMBDA n : n.type \in {"Mesh", "InstancedMesh", "AbstractMesh"})
  IN  [i \in 1..Len(meshes) |-> meshes[i].id]

\* getAllMeshIdsFromHierarchy of the page (src/unnamed/part_000): the ids of
\* the mesh nodes of a hierarchy, at every depth, in depth-first order.
RECURSIVE MeshIdsOfFirst(_, _)
MeshIdsOfFirst(nodes, i) ==
  IF i = 0 THEN << >>
  ELSE MeshIdsOfFirst(nodes, i - 1)
       \o (IF nodes[i].type \in {"Mesh", "InstancedMesh", "AbstractMesh"}
           THEN << nodes[i].id >> ELSE << >>)
       \o (IF Len(nodes[i].children) > 0
           THEN MeshIdsOfFirst(nodes[i].children, Len(nodes[i].children)) ELSE << >>)

getAllMeshIdsFromHierarchy(nodes) == MeshIdsOfFirst(nodes, Len(nodes))

Range(seq) == { seq[i] : i \in DOMAIN seq }

\* The nodes ModelHierarchyView (model-hierarchy-view.tsx) draws an eye
\* button for: the mesh nodes of the tree, whatever their depth.
RECURSIVE MeshNodeIds(_)
MeshNodeIds(nodes) ==
  UNION { (IF nodes[i].type \in {"Mesh", "InstancedMesh", "AbstractMesh"}
           THEN {nodes[i].id} ELSE {})
          \cup MeshNodeIds(nodes[i].children) : i \in DOMAIN nodes }

\* -------------------------------------------------- the animation groups
\* The forEach over the groups of the .then handler: the pair
\* (detectedFrameRate, maxDuration) after the first i groups.  A group whose
\* first channel declares no frame rate has frameRate 0 here.
RECURSIVE DetectAnimation(_, _)
DetectAnimation(groups, i) ==
  IF i = 0 THEN << DefaultFrameRate, 0 >>
  ELSE LET before == DetectAnimation(groups, i - 1)
           rate == IF groups[i].frameRate > 0 THEN groups[i].frameRate ELSE before[1]
           duration == (groups[i].to * 1000) \div rate
       IN  << rate, Max(duration, before[2]) >>

\* The state of an AnimationGroup of the engine: isStarted and isPaused (the
\* group is playing when started and not paused), loopAnimation, the frame
\* its animatables are at and its last frame.  As the loader hands it over
\* and after stop() it is not started and at frame 0.
GroupAtRest(group) ==
  [isStarted |-> FALSE, isPaused |-> FALSE, loopAnimation |-> group.loopAnimation,
   frame |-> 0, to |-> group.to]

isPlaying(g) == g.isStarted /\ ~g.isPaused

\* group.stop()
stop(g) == IF ~g.isStarted THEN g ELSE [g EXCEPT !.isStarted = FALSE, !.frame = 0]

\* group.reset() of a group that is not started: play(), goToFrame(0), stop(),
\* which leaves it not started with loopAnimation false.
reset(g) ==
  IF ~g.isStarted THEN [g EXCEPT !.loopAnimation = FALSE, !.isPaused = FALSE]
  ELSE [g EXCEPT !.frame = 0]

\* group.pause()
pause(g) == IF ~g.isStarted THEN g ELSE [g EXCEPT !.isPaused = TRUE]

\* group.goToFrame(frame): nothing for a group that is not started.
goToFrame(g, frame) == IF ~g.isStarted THEN g ELSE [g EXCEPT !.frame = frame]

\* group.play(loop): a started group takes the loop flag and is restarted
\* (unpaused where it is), any other is started from its first frame.
play(g, loop) ==
  IF g.isStarted
  THEN [g EXCEPT !.loopAnimation = loop, !.isPaused = FALSE]
  ELSE [g EXCEPT !.loopAnimation = loop, !.isStarted = TRUE, !.isPaused = FALSE, !.frame = 0]

\* Frames an animation advances between two rendered frames.
TickFrames == 30

\* scene.animate() on one group: a looping group wraps around at its last
\* frame, any other stays on it and is ended by the engine.
animate(g) ==
  IF ~isPlaying(g) THEN g
  ELSE IF g.loopAnimation THEN [g EXCEPT !.frame = (g.frame + TickFrames) % g.to]
  ELSE IF g.frame + TickFrames >= g.to THEN [g EXCEPT !.frame = g.to, !.isStarted = FALSE]
  ELSE [g EXCEPT !.frame = g.frame + TickFrames]

\* ================================================================ state
VARIABLES
  modelUrl,                      \* prop
  modelFileExtension,            \* prop
  renderingMode,                 \* prop
  isCurrentModelActuallyLoaded,  \* useState
  effectDeps,                    \* the values the rendering-mode effect last ran with
  loads,                         \* the runs of the load effect, in order: each run's
                                 \* closure (url, ext, renderingMode), the loader's
                                 \* arguments and the state of its promise
  loadedAssetContainerRef,       \* 0 for null, else the load whose container it holds
  sceneContainers,               \* the containers whose contents are in the scene
  disposeCount,                  \* per load: how often its container was disposed
  materials,                     \* per load: the materials of its container
  camera,
  gridY,
  animationGroupsRef,            \* 0 for null, else the load whose groups it holds
  totalDurationSecondsRef,
  frameRateRef,
  isPlayingInternalRef,
  onModelLoaded,                 \* per load: the onModelLoaded calls its handlers made
  hierarchyHeld,                 \* the last onModelHierarchyReady argument, and who sent it
  hierarchyEmitted,              \* the loads whose .then called onModelHierarchyReady
  animationsHeld,                \* the last onAnimationsAvailable arguments, and who sent them
  requestPlayAnimation,          \* prop: << >> for undefined, else << boolean >>
  requestAnimationSeek,          \* prop: << >> for undefined, else << percent >>
  groupStates,                   \* per load: the animation groups of its container
  onAnimationStateChange,        \* the arguments of the last call, << >> before the first
  onAnimationProgressUpdate,     \* the arguments of the last call, << >> before the first
  modelHierarchy,                \* page state: the hierarchy the scene panel shows
  hiddenMeshIds,                 \* page state: the ids of the meshes to hide
  isSoloActive,                  \* page state
  lastToggle,                    \* the last handleToggleMeshVisibility call: its arguments
                                 \* and the hidden set it found (<< >> before any call)
  isLoading,                     \* page state
  mounted,                       \* FALSE once the cleanup of the setup effect has run
  trial                          \* a routine of the component run on its own: its
                                 \* input and the results of the runs so far

vars ==
  << modelUrl, modelFileExtension, renderingMode, isCurrentModelActuallyLoaded,
     effectDeps, loads, loadedAssetContainerRef, sceneContainers, disposeCount,
     materials, camera, gridY, animationGroupsRef, totalDurationSecondsRef,
     frameRateRef, isPlayingInternalRef, onModelLoaded, hierarchyHeld,
     hierarchyEmitted, animationsHeld, requestPlayAnimation, requestAnimationSeek,
     groupStates, onAnimationStateChange, onAnimationProgressUpdate,
     modelHierarchy, hiddenMeshIds, isSoloActive, lastToggle, isLoading, mounted,
     trial >>

\* The variables of the mounted component.
viewerVars ==
  << modelUrl, modelFileExtension, renderingMode, isCurrentModelActuallyLoaded,
     effectDeps, loads, loadedAssetContainerRef, sceneContainers, disposeCount,
     materials, camera, gridY, animationGroupsRef, totalDurationSecondsRef,
     frameRateRef, isPlayingInternalRef, onModelLoaded, hierarchyHeld,
     hierarchyEmitted, animationsHeld, requestPlayAnimation, requestAnimationSeek,
     groupStates, onAnimationStateChange, onAnimationProgressUpdate,
     modelHierarchy, hiddenMeshIds, isSoloActive, lastToggle, isLoading, mounted >>

\* The visibility state of the page (src/unnamed/part_000) and its isLoading.
pageVars == << modelHierarchy, hiddenMeshIds, isSoloActive, lastToggle, isLoading >>

\* The animation props and what the animation callbacks were last called with.
playbackVars ==
  << requestPlayAnimation, requestAnimationSeek, onAnimationStateChange,
     onAnimationProgressUpdate >>

NoMaterials == [m \in {} |-> Mat("PBR", FALSE, FALSE, FALSE, 100, PBR_OPAQUE, << >>)]

\* The renderingMode a load's handlers closed over is dropped with the
\* handlers once the load has settled (or has returned early).
Released == "released"

isDataUrl(url) == StartsWith(url, "data:")

rootUrl(url) == IF isDataUrl(url) THEN "" ELSE SubSeq(url, 1, LastSlashEnd(url, Len(url)))

pluginExtension(url, ext) == IF isDataUrl(url) /\ ext # NoExt THEN ext ELSE "undefined"

\* The state after mount: the setup effect has built scene, camera and grid,
\* and the load effect has run once with modelUrl = null.
Mounted ==
  /\ modelUrl = NoUrl
  /\ modelFileExtension = NoExt
  /\ renderingMode = "shaded"
  /\ isCurrentModelActuallyLoaded = FALSE
  /\ effectDeps = << "shaded", FALSE, NoExt >>
  /\ loads = << >>
  /\ loadedAssetContainerRef = 0
  /\ sceneContainers = {}
  /\ disposeCount = << >>
  /\ materials = << >>
  /\ camera = DefaultCamera
  /\ gridY = 0
  /\ animationGroupsRef = 0
  /\ totalDurationSecondsRef = 0
  /\ frameRateRef = DefaultFrameRate
  /\ isPlayingInternalRef = FALSE
  /\ onModelLoaded = << >>
  /\ hierarchyHeld = [by |-> 0, nodes |-> << >>]
  /\ hierarchyEmitted = {}
  /\ animationsHeld = [by |-> 0, available |-> FALSE, duration |-> 0]
  /\ requestPlayAnimation = << >>
  /\ requestAnimationSeek = << >>
  /\ groupStates = << >>
  /\ onAnimationStateChange = << >>
  /\ onAnimationProgressUpdate = << >>
  /\ modelHierarchy = << >>
  /\ hiddenMeshIds = {}
  /\ isSoloActive = FALSE
  /\ lastToggle = << >>
  /\ isLoading = FALSE
  /\ mounted = TRUE

\* No routine is run on its own while the component runs.
NoTrial == [routine |-> "none"]

Init == Mounted /\ trial = NoTrial

\* if (loadedAssetContainerRef.current) { removeAllFromScene(); dispose();
\* loadedAssetContainerRef.current = null }: the scene and the dispose counts
\* afterwards.
SceneAfterDispose == sceneContainers \ {loadedAssetContainerRef}

CountAfterDispose ==
  IF loadedAssetContainerRef # 0
  THEN [disposeCount EXCEPT ![loadedAssetContainerRef] = @ + 1]
  ELSE disposeCount

\* dispose() releases the container's materials with it.
MaterialsAfterDispose ==
  IF loadedAssetContainerRef # 0
  THEN [materials EXCEPT ![loadedAssetContainerRef] = NoMaterials]
  ELSE materials

\* dispose() stops and releases the container's animation groups.
GroupsAfterDispose ==
  IF loadedAssetContainerRef # 0
  THEN [groupStates EXCEPT ![loadedAssetContainerRef] = << >>]
  ELSE groupStates

\* The model load effect, run because modelUrl / modelFileExtension changed.
\* The rendering-mode effect of the same commit finds
\* loadedAssetContainerRef.current null and changes nothing.  The page changes
\* the two props from processFile, which clears its hierarchy, its hidden set
\* and solo and sets isLoading before it does.
LoadRequest(src) ==
  /\ mounted
  /\ Len(loads) < MaxRequests
  /\ << src.url, src.ext >> # << modelUrl, modelFileExtension >>
  /\ modelUrl' = src.url
  /\ modelFileExtension' = src.ext
  /\ isCurrentModelActuallyLoaded' = FALSE
  /\ effectDeps' = << renderingMode, FALSE, src.ext >>
  /\ hierarchyHeld' = [by |-> 0, nodes |-> << >>]
  /\ animationsHeld' = [by |-> 0, available |-> FALSE, duration |-> 0]
  /\ animationGroupsRef' = 0
  /\ totalDurationSecondsRef' = 0
  /\ isPlayingInternalRef' = FALSE
  /\ loadedAssetContainerRef' = 0
  /\ sceneContainers' = SceneAfterDispose
  /\ disposeCount' = Append(CountAfterDispose, 0)
  /\ materials' = Append(MaterialsAfterDispose, NoMaterials)
  /\ onModelLoaded' = Append(onModelLoaded, << >>)
  /\ IF src.url = NoUrl
     THEN /\ camera' = internalResetCameraAndEnvironment(camera)[1]
          /\ gridY' = 0
     ELSE UNCHANGED << camera, gridY >>
  /\ loads' = Append(loads,
       [url |-> src.url, ext |-> src.ext,
        renderingMode |-> IF src.url = NoUrl THEN Released ELSE renderingMode,
        rootUrl |-> rootUrl(src.url),
        pluginExtension |-> pluginExtension(src.url, src.ext),
        status |-> IF src.url = NoUrl THEN "none" ELSE "pending",
        steps |-> << >>])
  /\ groupStates' = Append(GroupsAfterDispose, << >>)
  /\ modelHierarchy' = << >>
  /\ hiddenMeshIds' = {}
  /\ isSoloActive' = FALSE
  /\ isLoading' = TRUE
  /\ UNCHANGED << renderingMode, frameRateRef, hierarchyEmitted, playbackVars,
                  lastToggle, mounted, trial >>

\* What the .then handler does with the container, in the order of its
\* statements.
thenSteps(asset) ==
  << "addAllToScene", "backFaceCulling", "frame", "applyRenderingModeStyle",
     "onModelLoaded", "onModelHierarchyReady" >>
  \o (IF Len(asset.animationGroups) > 0
      THEN << "initialise animation groups", "onAnimationsAvailable" >>
      ELSE << "onAnimationsAvailable" >>)

\* The .then handler of load r: the loader resolved with the container.
LoadResolve(r) ==
  /\ r \in DOMAIN loads
  /\ loads[r].status = "pending"
  /\ LET asset == Asset(loads[r].url)
         \* after the cleanup internalResetCameraAndEnvironment finds
         \* sceneRef.current null and returns; the handler still sets the
         \* height of the grid it closed over
         framed == IF mounted \/ Len(visibleEnabledMeshes(asset.meshes)) > 0
                   THEN FrameOnLoad(camera, asset.meshes)
                   ELSE << camera, 0 >>
         detected == DetectAnimation(asset.animationGroups, Len(asset.animationGroups))
     IN  /\ loads' = [loads EXCEPT ![r].status = "resolved", ![r].renderingMode = Released,
                                   ![r].steps = thenSteps(asset)]
         /\ loadedAssetContainerRef' = r
         /\ sceneContainers' = sceneContainers \cup {r}
         /\ camera' = framed[1]
         /\ gridY' = framed[2]
         /\ materials' = [materials EXCEPT ![r] =
              applyRenderingModeStyle(loads[r].renderingMode, asset.meshes,
                                      DoubleSided(asset.materials), loads[r].ext)]
         /\ onModelLoaded' = [onModelLoaded EXCEPT ![r] =
              Append(@, [success |-> TRUE, message |-> ""])]
         /\ isLoading' = FALSE
         /\ isCurrentModelActuallyLoaded' = mounted
         /\ hierarchyHeld' = [by |-> r, nodes |-> hierarchyRoots(asset)]
         /\ modelHierarchy' = hierarchyRoots(asset)
         /\ hierarchyEmitted' = hierarchyEmitted \cup {r}
         /\ groupStates' = [groupStates EXCEPT ![r] =
              [i \in 1..Len(asset.animationGroups) |->
                 goToFrame(reset(stop(GroupAtRest(asset.animationGroups[i]))), 0)]]
         /\ IF Len(asset.animationGroups) > 0
            THEN /\ animationGroupsRef' = r
                 /\ frameRateRef' = detected[1]
                 /\ totalDurationSecondsRef' = detected[2]
                 /\ animationsHeld' = [by |-> r, available |-> TRUE, duration |-> detected[2]]
            ELSE /\ animationsHeld' = [by |-> r, available |-> FALSE, duration |-> 0]
                 /\ UNCHANGED << animationGroupsRef, frameRateRef, totalDurationSecondsRef >>
  /\ UNCHANGED << modelUrl, modelFileExtension, renderingMode, effectDeps,
                  disposeCount, isPlayingInternalRef, playbackVars, hiddenMeshIds,
                  isSoloActive, lastToggle, mounted, trial >>

\* The .catch handler of load r: the loader rejected with error.
LoadReject(r, error) ==
  /\ r \in DOMAIN loads
  /\ loads[r].status = "pending"
  /\ loads' = [loads EXCEPT ![r].status = "rejected", ![r].renderingMode = Released]
  /\ onModelLoaded' = [onModelLoaded EXCEPT ![r] =
       Append(@, [success |-> FALSE,
                  message |-> userMessage(error, loads[r].ext, isDataUrl(loads[r].url))])]
  /\ isLoading' = FALSE
  /\ isCurrentModelActuallyLoaded' = (~mounted /\ isCurrentModelActuallyLoaded)
  /\ animationsHeld' = [by |-> r, available |-> FALSE, duration |-> 0]
  /\ loadedAssetContainerRef' = 0
  /\ sceneContainers' = SceneAfterDispose
  /\ disposeCount' = CountAfterDispose
  /\ materials' = MaterialsAfterDispose
  /\ animationGroupsRef' = 0
  /\ groupStates' = GroupsAfterDispose
  /\ modelHierarchy' = << >>
  /\ hiddenMeshIds' = {}
  /\ isSoloActive' = FALSE
  /\ camera' = IF mounted THEN internalResetCameraAndEnvironment(camera)[1] ELSE camera
  /\ gridY' = IF mounted THEN internalResetCameraAndEnvironment(camera)[2] ELSE gridY
  /\ UNCHANGED << modelUrl, modelFileExtension, renderingMode, effectDeps,
                  totalDurationSecondsRef, frameRateRef, isPlayingInternalRef,
                  hierarchyHeld, hierarchyEmitted, playbackVars, lastToggle, mounted, trial >>

\* The .then handler of load r when the onModelHierarchyReady listener throws
\* error: the handler has run up to that call, the promise it returns is
\* rejected with the error and the .catch handler of the chain runs, finding
\* in loadedAssetContainerRef the container the .then handler put there.
LoadResolveThrows(r, error) ==
  /\ r \in DOMAIN loads
  /\ loads[r].status = "pending"
  /\ LET asset == Asset(loads[r].url)
     IN  /\ loads' = [loads EXCEPT
               ![r].status = "thrown", ![r].renderingMode = Released,
               ![r].steps = << "addAllToScene", "backFaceCulling", "frame",
                               "applyRenderingModeStyle", "onModelLoaded",
                               "onModelHierarchyReady", "catch" >>]
         /\ onModelLoaded' = [onModelLoaded EXCEPT ![r] =
               @ \o << [success |-> TRUE, message |-> ""],
                       [success |-> FALSE,
                        message |-> userMessage(error, loads[r].ext,
                                                isDataUrl(loads[r].url))] >>]
         /\ hierarchyHeld' = [by |-> r, nodes |-> hierarchyRoots(asset)]
         /\ hierarchyEmitted' = hierarchyEmitted \cup {r}
  /\ isLoading' = FALSE
  /\ isCurrentModelActuallyLoaded' = (~mounted /\ isCurrentModelActuallyLoaded)
  /\ animationsHeld' = [by |-> r, available |-> FALSE, duration |-> 0]
  /\ loadedAssetContainerRef' = 0
  /\ sceneContainers' = sceneContainers \ {r}
  /\ disposeCount' = [disposeCount EXCEPT ![r] = @ + 1]
  /\ materials' = [materials EXCEPT ![r] = NoMaterials]
  /\ animationGroupsRef' = 0
  /\ groupStates' = [groupStates EXCEPT ![r] = << >>]
  /\ modelHierarchy' = << >>
  /\ hiddenMeshIds' = {}
  /\ isSoloActive' = FALSE
  /\ camera' = IF mounted THEN internalResetCameraAndEnvironment(camera)[1] ELSE camera
  /\ gridY' = IF mounted THEN internalResetCameraAndEnvironment(camera)[2] ELSE gridY
  /\ UNCHANGED << modelUrl, modelFileExtension, renderingMode, effectDeps,
                  totalDurationSecondsRef, frameRateRef, isPlayingInternalRef,
                  playbackVars, lastToggle, mounted, trial >>

\* The body of the rendering-mode effect: the materials afterwards.
StyleEffect(mode) ==
  IF isCurrentModelActuallyLoaded /\ loadedAssetContainerRef # 0
  THEN [materials EXCEPT ![loadedAssetContainerRef] =
          applyRenderingModeStyle(mode, Asset(loads[loadedAssetContainerRef].url).meshes,
                                  @, modelFileExtension)]
  ELSE materials

\* A style change that also runs the disposal of the load effect, as it
\* would with renderingMode among that effect's dependencies.
SetRenderingStyleDisposes(mode) ==
  /\ mounted
  /\ mode # renderingMode
  /\ renderingMode' = mode
  /\ materials' = MaterialsAfterDispose
  /\ effectDeps' = << mode, isCurrentModelActuallyLoaded, modelFileExtension >>
  /\ loadedAssetContainerRef' = 0
  /\ sceneContainers' = SceneAfterDispose
  /\ disposeCount' = CountAfterDispose
  /\ UNCHANGED << modelUrl, modelFileExtension, isCurrentModelActuallyLoaded, loads,
                  camera, gridY,
                  animationGroupsRef, totalDurationSecondsRef, frameRateRef,
                  isPlayingInternalRef, onModelLoaded, hierarchyHeld, hierarchyEmitted,
                  animationsHeld, groupStates, playbackVars, pageVars, mounted, trial >>

\* setRenderingStyle: the renderingMode prop changes and the rendering-mode
\* effect runs in the commit that follows.
SetRenderingStyle(mode) ==
  /\ mounted
  /\ mode # renderingMode
  /\ renderingMode' = mode
  /\ materials' = StyleEffect(mode)
  /\ effectDeps' = << mode, isCurrentModelActuallyLoaded, modelFileExtension >>
  /\ UNCHANGED << modelUrl, modelFileExtension, isCurrentModelActuallyLoaded, loads,
                  loadedAssetContainerRef, sceneContainers, disposeCount, camera, gridY,
                  animationGroupsRef, totalDurationSecondsRef, frameRateRef,
                  isPlayingInternalRef, onModelLoaded, hierarchyHeld, hierarchyEmitted,
                  animationsHeld, groupStates, playbackVars, pageVars, mounted, trial >>

\* The rendering-mode effect run by the re-render that a change of
\* isCurrentModelActuallyLoaded causes.
RenderingModeEffect ==
  /\ mounted
  /\ effectDeps # << renderingMode, isCurrentModelActuallyLoaded, modelFileExtension >>
  /\ materials' = StyleEffect(renderingMode)
  /\ effectDeps' = << renderingMode, isCurrentModelActuallyLoaded, modelFileExtension >>
  /\ UNCHANGED << modelUrl, modelFileExtension, renderingMode,
                  isCurrentModelActuallyLoaded, loads, loadedAssetContainerRef,
                  sceneContainers, disposeCount, camera, gridY, animationGroupsRef,
                  totalDurationSecondsRef, frameRateRef, isPlayingInternalRef,
                  onModelLoaded, hierarchyHeld, hierarchyEmitted, animationsHeld,
                  groupStates, playbackVars, pageVars, mounted, trial >>

\* ------------------------------------------------------------- playback
\* The percentages the page's slider asks a seek to.
SeekPercents == {0, 50, 100}

\* The groups animationGroupsRef holds (<< >> for null).
HeldGroups == IF animationGroupsRef = 0 THEN << >> ELSE groupStates[animationGroupsRef]

\* A forEach that starts the groups and never pauses them.
PlayedNeverPaused(groups, want) ==
  [i \in DOMAIN groups |->
     IF want THEN (IF ~isPlaying(groups[i]) THEN play(groups[i], TRUE) ELSE groups[i])
     ELSE groups[i]]

\* The forEach of the requestPlayAnimation effect.
PlayedOrPaused(groups, want) ==
  [i \in DOMAIN groups |->
     IF want THEN (IF ~isPlaying(groups[i]) THEN play(groups[i], TRUE) ELSE groups[i])
     ELSE (IF isPlaying(groups[i]) THEN pause(groups[i]) ELSE groups[i])]

\* frameRateRef.current || 60
HeldFrameRate == IF frameRateRef = 0 THEN DefaultFrameRate ELSE frameRateRef

\* targetFrame of the requestAnimationSeek effect (the duration is held in
\* milliseconds).
targetFrame(percent) == (percent * totalDurationSecondsRef * HeldFrameRate) \div 100000

\* The forEach of the requestAnimationSeek effect, playProp being the
\* requestPlayAnimation the effect sees.
Sought(groups, frame, playProp) ==
  [i \in DOMAIN groups |->
     LET wasPlaying == isPlaying(groups[i])
         paused == IF wasPlaying THEN pause(groups[i]) ELSE groups[i]
         moved == goToFrame(paused, frame)
     IN  IF wasPlaying /\ (playProp = << >> \/ playProp = << TRUE >>) THEN play(moved, TRUE)
         ELSE IF playProp = << FALSE >> /\ isPlaying(moved) THEN pause(moved)
         ELSE moved]

\* Whether the body of the requestAnimationSeek effect runs.
SeekRuns(seekProp) ==
  animationGroupsRef # 0 /\ seekProp # << >> /\ totalDurationSecondsRef > 0

\* What the requestAnimationSeek effect calls onAnimationProgressUpdate with.
SeekProgress(percent) ==
  << percent, (percent * totalDurationSecondsRef) \div 100, totalDurationSecondsRef >>

\* requestPlay(want): the requestPlayAnimation prop changes; the
\* requestPlayAnimation effect runs and, having the prop among its
\* dependencies, the requestAnimationSeek effect after it.
RequestPlay(want) ==
  /\ mounted
  /\ requestPlayAnimation # << want >>
  /\ requestPlayAnimation' = << want >>
  /\ LET played == PlayedOrPaused(HeldGroups, want)
         sought == IF SeekRuns(requestAnimationSeek)
                   THEN Sought(played, targetFrame(requestAnimationSeek[1]), << want >>)
                   ELSE played
     IN  /\ groupStates' = IF animationGroupsRef # 0
                           THEN [groupStates EXCEPT ![animationGroupsRef] = sought]
                           ELSE groupStates
         /\ isPlayingInternalRef' = IF animationGroupsRef # 0 THEN want
                                    ELSE isPlayingInternalRef
         /\ onAnimationStateChange' = IF animationGroupsRef # 0 THEN << want >>
                                      ELSE onAnimationStateChange
         /\ onAnimationProgressUpdate' =
              IF SeekRuns(requestAnimationSeek) THEN SeekProgress(requestAnimationSeek[1])
              ELSE onAnimationProgressUpdate
  /\ UNCHANGED << modelUrl, modelFileExtension, renderingMode,
                  isCurrentModelActuallyLoaded, effectDeps, loads,
                  loadedAssetContainerRef, sceneContainers, disposeCount, materials,
                  camera, gridY, animationGroupsRef, totalDurationSecondsRef,
                  frameRateRef, onModelLoaded, hierarchyHeld, hierarchyEmitted,
                  animationsHeld, requestAnimationSeek, pageVars, mounted, trial >>

\* requestSeek(percent): the requestAnimationSeek prop changes and the
\* requestAnimationSeek effect runs.
RequestSeek(percent) ==
  /\ mounted
  /\ requestAnimationSeek # << percent >>
  /\ requestAnimationSeek' = << percent >>
  /\ IF SeekRuns(<< percent >>)
     THEN /\ groupStates' = [groupStates EXCEPT ![animationGroupsRef] =
               Sought(HeldGroups, targetFrame(percent), requestPlayAnimation)]
          /\ onAnimationProgressUpdate' = SeekProgress(percent)
     ELSE UNCHANGED << groupStates, onAnimationProgressUpdate >>
  /\ UNCHANGED << modelUrl, modelFileExtension, renderingMode,
                  isCurrentModelActuallyLoaded, effectDeps, loads,
                  loadedAssetContainerRef, sceneContainers, disposeCount, materials,
                  camera, gridY, animationGroupsRef, totalDurationSecondsRef,
                  frameRateRef, isPlayingInternalRef, onModelLoaded, hierarchyHeld,
                  hierarchyEmitted, animationsHeld, requestPlayAnimation,
                  onAnimationStateChange, pageVars, mounted, trial >>

\* The groups of every container after scene.animate().
Animated == [r \in DOMAIN groupStates |->
               [i \in DOMAIN groupStates[r] |-> animate(groupStates[r][i])]]

\* What the observer calls onAnimationProgressUpdate with for currentFrame.
TickProgress(currentFrame) ==
  LET currentTime == (currentFrame * 1000) \div HeldFrameRate
      progress == (currentTime * 100) \div totalDurationSecondsRef
  IN  << Min(100, Max(0, progress)), currentTime, totalDurationSecondsRef >>

\* One rendered frame: scene.render() advances the animations and then
\* notifies the onBeforeRender observer of the setup effect.
Tick ==
  LET observes == /\ isPlayingInternalRef
                  /\ animationGroupsRef # 0
                  /\ totalDurationSecondsRef > 0
                  /\ Len(Animated[animationGroupsRef]) > 0
                  /\ isPlaying(Animated[animationGroupsRef][1])
      group == Animated[animationGroupsRef][1]
      ends == observes /\ ~group.loopAnimation /\ group.frame >= group.to
  IN  /\ mounted
      /\ groupStates' = IF ends
                        THEN [Animated EXCEPT ![animationGroupsRef][1] = stop(group)]
                        ELSE Animated
      /\ onAnimationProgressUpdate' = IF observes THEN TickProgress(group.frame)
                                      ELSE onAnimationProgressUpdate
      /\ isPlayingInternalRef' = IF ends THEN FALSE ELSE isPlayingInternalRef
      /\ onAnimationStateChange' = IF ends THEN << FALSE >> ELSE onAnimationStateChange
      /\ camera' = checkLimits(camera)
      /\ UNCHANGED << modelUrl, modelFileExtension, renderingMode,
                      isCurrentModelActuallyLoaded, effectDeps, loads,
                      loadedAssetContainerRef, sceneContainers, disposeCount, materials,
                      gridY, animationGroupsRef, totalDurationSecondsRef,
                      frameRateRef, onModelLoaded, hierarchyHeld, hierarchyEmitted,
                      animationsHeld, requestPlayAnimation, requestAnimationSeek,
                      pageVars, mounted, trial >>

\* The cleanup of the setup effect, run when the page stops rendering the
\* component: the held container is disposed and its reference and the
\* groups' reference are set to null; scene.dispose() releases what is
\* attached to the scene; engine.dispose() ends the render loop.  The load
\* effect has no cleanup: the handlers of a load in flight stay registered.
Unmount ==
  /\ mounted
  /\ mounted' = FALSE
  /\ loadedAssetContainerRef' = 0
  /\ animationGroupsRef' = 0
  /\ disposeCount' = CountAfterDispose
  /\ sceneContainers' = {}
  /\ materials' = [r \in DOMAIN materials |->
                     IF r \in sceneContainers \cup {loadedAssetContainerRef}
                     THEN NoMaterials ELSE materials[r]]
  /\ groupStates' = [r \in DOMAIN groupStates |->
                       IF r \in sceneContainers \cup {loadedAssetContainerRef}
                       THEN << >> ELSE groupStates[r]]
  /\ UNCHANGED << modelUrl, modelFileExtension, renderingMode,
                  isCurrentModelActuallyLoaded, effectDeps, loads, camera, gridY,
                  totalDurationSecondsRef, frameRateRef, isPlayingInternalRef,
                  onModelLoaded, hierarchyHeld, hierarchyEmitted, animationsHeld,
                  playbackVars, pageVars, trial >>

Next ==
  \/ \E src \in Sources : LoadRequest(src)
  \/ \E r \in 1..MaxRequests : LoadResolve(r)
  \/ \E r \in 1..MaxRequests, error \in LoadErrors : LoadReject(r, error)
  \/ \E mode \in RenderingModes : SetRenderingStyle(mode)
  \/ RenderingModeEffect

Spec == Init /\ [][Next]_vars

\* ------------------------------------------------------------ visibility
\* handleToggleMeshVisibility(meshId, ctrlPressed) of the page, called from
\* the eye button the scene panel shows for the mesh nodes of modelHierarchy.
handleToggleMeshVisibility(meshId, ctrlPressed) ==
  /\ meshId \in MeshNodeIds(modelHierarchy)
  /\ IF ctrlPressed
     THEN IF isSoloActive
          THEN /\ hiddenMeshIds' = {}
               /\ isSoloActive' = FALSE
          ELSE /\ hiddenMeshIds' =
                    Range(getAllMeshIdsFromHierarchy(modelHierarchy)) \ {meshId}
               /\ isSoloActive' = TRUE
     ELSE /\ isSoloActive' = FALSE
          /\ hiddenMeshIds' = IF meshId \in hiddenMeshIds
                              THEN hiddenMeshIds \ {meshId}
                              ELSE hiddenMeshIds \cup {meshId}
  /\ lastToggle' = << meshId, ctrlPressed, hiddenMeshIds >>
  /\ UNCHANGED << modelUrl, modelFileExtension, renderingMode,
                  isCurrentModelActuallyLoaded, effectDeps, loads,
                  loadedAssetContainerRef, sceneContainers, disposeCount, materials,
                  camera, gridY, animationGroupsRef, totalDurationSecondsRef,
                  frameRateRef, isPlayingInternalRef, onModelLoaded, hierarchyHeld,
                  hierarchyEmitted, animationsHeld, groupStates, playbackVars,
                  modelHierarchy, isLoading, mounted, trial >>

\* The viewer with the page's scene panel.
PageNext ==
  \/ Next
  \/ \E meshId \in MeshNodeIds(modelHierarchy), ctrlPressed \in BOOLEAN :
       handleToggleMeshVisibility(meshId, ctrlPressed)

PageSpec == Init /\ [][PageNext]_vars

\* The component with its animation commands and the render loop.
PlaybackNext ==
  \/ Next
  \/ \E want \in BOOLEAN : RequestPlay(want)
  \/ \E percent \in SeekPercents : RequestSeek(percent)
  \/ Tick

PlaybackSpec == Init /\ [][PlaybackNext]_vars

\* The render loop (engine.runRenderLoop) never stops rendering frames.
PlaybackFairSpec == PlaybackSpec /\ WF_vars(Tick)

\* The component with listeners that can throw.
ThrowNext ==
  \/ Next
  \/ \E r \in 1..MaxRequests, error \in LoadErrors : LoadResolveThrows(r, error)

ThrowSpec == Init /\ [][ThrowNext]_vars

\* The component until and after the page stops rendering it.
TeardownNext ==
  \/ Next
  \/ Unmount

TeardownSpec == Init /\ [][TeardownNext]_vars

\* The same component showing the model with two animation groups.
RigSources ==
  { [url |-> NoUrl, ext |-> NoExt], [url |-> UrlRig, ext |-> ".glb"] }

RigNext ==
  \/ \E src \in RigSources : LoadRequest(src)
  \/ \E r \in 1..MaxRequests : LoadResolve(r)
  \/ \E want \in BOOLEAN : RequestPlay(want)
  \/ \E percent \in SeekPercents : RequestSeek(percent)
  \/ Tick

RigSpec == Init /\ [][RigNext]_vars

\* ============================================ routines run on their own
\* applyRenderingModeStyle on the container the loader produced for url (its
\* materials already made double-sided by the .then handler), with the format
\* hint ext: the styles applied so far and the materials after each.
StyleTrials ==
  { [routine |-> "applyRenderingModeStyle", url |-> u, ext |-> e,
     applied |-> << >>, results |-> << >>] :
       u \in {UrlGlb, UrlObj}, e \in {".glb", ".obj", ".gltf"} }

\* The materials of the container a style trial is about to restyle.
TrialMaterials ==
  IF trial.results = << >> THEN DoubleSided(Asset(trial.url).materials)
  ELSE trial.results[Len(trial.results)]

TrialStyle(mode) ==
  /\ trial.routine = "applyRenderingModeStyle"
  /\ Len(trial.applied) < MaxTrialRuns
  /\ trial' = [trial EXCEPT
       !.applied = Append(@, mode),
       !.results = Append(@, applyRenderingModeStyle(mode, Asset(trial.url).meshes,
                                                     TrialMaterials, trial.ext))]
  /\ UNCHANGED viewerVars

\* A pose the user has orbited and zoomed the camera to.
OrbitedCamera ==
  [target |-> <<30, 40, 50>>, radius |-> 250, alpha |-> "orbited", beta |-> "orbited"]

\* The meshes of a container with those of hidden made invisible.
WithHidden(meshes, hidden) ==
  [i \in DOMAIN meshes |->
     IF i \in hidden THEN [meshes[i] EXCEPT !.isVisible = FALSE] ELSE meshes[i]]

\* The camera framing on the container the loader produced for url, some of
\* its meshes hidden, starting from the pose start: the (camera, grid y)
\* after each run.  The focus command runs the same routine.  The engine is
\* not part of the sources: limits says whether its camera.zoomOn applies the
\* radius limits itself or leaves them to the camera update of the next
\* rendered frame.
FrameTrials ==
  { [routine |-> "frame", url |-> u, hidden |-> h, start |-> c, limits |-> l,
     results |-> << >>] :
       u \in {UrlGlb, UrlObj, UrlGltf, UrlHidden, UrlPoint}, h \in SUBSET (1..3),
       c \in {DefaultCamera, OrbitedCamera}, l \in {"in zoomOn", "on update"} }

TrialFrame ==
  /\ trial.routine = "frame"
  /\ Len(trial.results) < MaxTrialRuns
  /\ LET cam == IF trial.results = << >> THEN trial.start
                ELSE trial.results[Len(trial.results)][1]
         framed == FrameOnLoad(cam, WithHidden(Asset(trial.url).meshes, trial.hidden))
     IN  trial' = [trial EXCEPT !.results =
           Append(@, IF trial.limits = "in zoomOn"
                     THEN << checkLimits(framed[1]), framed[2] >>
                     ELSE framed)]
  /\ UNCHANGED viewerVars

\* Animation groups a container can hold: the last frame, and the frame rate
\* of the first channel (0 when the group has no channel or declares none).
AnimationGroups ==
  { [to |-> t, frameRate |-> f, loopAnimation |-> FALSE] :
      t \in {60, 120, 240}, f \in {0, 30, 60} }

\* The animation initialisation of the .then handler on a container with
\* these groups: the (detectedFrameRate, maxDuration) of each run.
InitialisationTrials ==
  { [routine |-> "animationInit", groups |-> g, results |-> << >>] :
      g \in UNION { [1..n -> AnimationGroups] : n \in 1..MaxGroups } }

TrialInitialisation ==
  /\ trial.routine = "animationInit"
  /\ Len(trial.results) < MaxTrialRuns
  /\ trial' = [trial EXCEPT !.results =
       Append(@, DetectAnimation(trial.groups, Len(trial.groups)))]
  /\ UNCHANGED viewerVars

\* The node trees the hierarchy extraction is run on: up to MaxNodes nodes,
\* each a root or the child of an earlier node, named as a part of the
\* model, as the loader's internal root or as the viewer's grid.
NodeNames == {"Part", "__root__", "grid"}

NodeTypes == {"Mesh", "TransformNode"}

Indices(n) == [k \in 1..n |-> k]

TreeOf(n, parent, name, type) ==
  [rootNodes |-> SelectSeq(Indices(n), LAMBDA j : parent[j] = 0),
   nodes |-> [i \in 1..n |->
                NodeOf(50 + i, name[i], type[i],
                       SelectSeq(Indices(n), LAMBDA j : parent[j] = i))]]

HierarchyTrials ==
  UNION { { [routine |-> "hierarchy", tree |-> TreeOf(n, parent, name, type),
             results |-> << >>] :
              parent \in { p \in [1..n -> 0..(n - 1)] : \A i \in 1..n : p[i] < i },
              name \in [1..n -> NodeNames], type \in [1..n -> NodeTypes] } :
          n \in 1..MaxNodes }

\* The hierarchy the .then handler emits for the tree.
TrialHierarchy ==
  /\ trial.routine = "hierarchy"
  /\ trial.results = << >>
  /\ trial' = [trial EXCEPT !.results = << hierarchyRoots(trial.tree) >>]
  /\ UNCHANGED viewerVars

\* The message of the .catch handler for a rejection value, a format hint
\* and a source that is or is not a data: URL.
MessageTrials ==
  { [routine |-> "userMessage", error |-> e, ext |-> x, isDataUrl |-> d,
     results |-> << >>] :
       e \in LoadErrors, x \in {".obj", ".glb", ".gltf"}, d \in BOOLEAN }

TrialMessage ==
  /\ trial.routine = "userMessage"
  /\ trial.results = << >>
  /\ trial' = [trial EXCEPT !.results =
       << userMessage(trial.error, trial.ext, trial.isDataUrl) >>]
  /\ UNCHANGED viewerVars

RoutineInit ==
  Mounted /\ trial \in StyleTrials \cup FrameTrials \cup InitialisationTrials
                                   \cup HierarchyTrials \cup MessageTrials

RoutineNext ==
  \/ \E mode \in RenderingModes : TrialStyle(mode)
  \/ TrialFrame
  \/ TrialInitialisation
  \/ TrialHierarchy
  \/ TrialMessage

RoutineSpec == RoutineInit /\ [][RoutineNext]_vars

\* =============================================================== claims
\* The latest load request (0 before the first one).
Latest == Len(loads)

Superseded(r) == r < Latest

Settles(r, how) == loads[r].status = "pending" /\ loads'[r].status = how

\* The flags section 4.2 of the specification gives a material under a style.
CarriesStyle(mat, mode) ==
  /\ mat.wireframe = (mode = "wireframe")
  /\ mat.kind = "PBR" => mat.unlit = (mode # "shaded")
  /\ mat.kind = "Standard" => mat.disableLighting = (mode # "shaded")

\* C1: only the container of the last-issued request is ever attached to the
\* scene, and every container the loader produced for a superseded request
\* has been disposed exactly once and is not attached.
C1_OnlyLastRequestAttached ==
  /\ sceneContainers \subseteq {Latest}
  /\ \A r \in DOMAIN loads :
       (loads[r].status = "resolved" /\ Superseded(r)) =>
         (disposeCount[r] = 1 /\ r \notin sceneContainers)

\* C2: the scene holds the contents of at most one container, and it is the
\* one loadedAssetContainerRef points to.
C2_AtMostOneContainerInScene ==
  /\ Cardinality(sceneContainers) <= 1
  /\ sceneContainers \subseteq {loadedAssetContainerRef}

\* C3: a load that resolves after a newer request was issued makes no
\* callback: no onModelLoaded, no onModelHierarchyReady, no
\* onAnimationsAvailable.
C3_StaleResolveIsSilent ==
  [][\A r \in DOMAIN loads :
       (Superseded(r) /\ Settles(r, "resolved")) =>
         /\ onModelLoaded' = onModelLoaded
         /\ hierarchyHeld' = hierarchyHeld
         /\ hierarchyEmitted' = hierarchyEmitted
         /\ animationsHeld' = animationsHeld]_vars

\* C4: a load that rejects after a newer request was issued is discarded: no
\* onModelLoaded(false, ...) is made for it, and the container, the camera
\* pose and the animation state of the newer request are left as they are.
C4_StaleRejectIsSilent ==
  [][\A r \in DOMAIN loads :
       (Superseded(r) /\ Settles(r, "rejected")) =>
         /\ onModelLoaded' = onModelLoaded
         /\ loadedAssetContainerRef' = loadedAssetContainerRef
         /\ sceneContainers' = sceneContainers
         /\ camera' = camera
         /\ gridY' = gridY
         /\ animationGroupsRef' = animationGroupsRef
         /\ animationsHeld' = animationsHeld]_vars

C6_NoEarlierContainerOnceLoaderStarted ==
  \A r \in DOMAIN loads :
    loads[r].status # "none" => \A q \in 1..(r - 1) : q \notin sceneContainers

\* C7: between a load request and its completion the listeners hold the empty
\* hierarchy and the empty animation info, and the animation refs are reset.
C7_NoStaleDataWhileLoading ==
  (Latest > 0 /\ loads[Latest].status = "pending") =>
    /\ hierarchyHeld.nodes = << >>
    /\ animationsHeld.available = FALSE
    /\ animationsHeld.duration = 0
    /\ animationGroupsRef = 0
    /\ totalDurationSecondsRef = 0

\* C8: after the latest request has failed, and until a new request is
\* issued, no container is attached and the camera is at the default pose.
C8_NothingAttachedAfterFailure ==
  (Latest > 0 /\ loads[Latest].status = "rejected") =>
    /\ sceneContainers = {}
    /\ loadedAssetContainerRef = 0
    /\ camera = DefaultCamera
    /\ gridY = 0

\* C9: a load request with no model leaves the camera at the default pose
\* and the grid at y = 0; the loader is never invoked for it and no
\* onModelLoaded call is ever made for it.
C9_EmptyRequestResets ==
  /\ [](\A r \in DOMAIN loads :
          loads[r].url = NoUrl => (loads[r].status = "none" /\ onModelLoaded[r] = << >>))
  /\ [][(Len(loads') = Len(loads) + 1 /\ loads'[Len(loads')].url = NoUrl) =>
          /\ camera' = DefaultCamera
          /\ gridY' = 0
          /\ loadedAssetContainerRef' = 0]_vars

\* An empty request was issued after a model had been loaded and framed (so
\* camera and grid had left their defaults), and both are back at them.
C9_Witness ==
  /\ Latest = 2
  /\ loads[1].url = UrlGlb
  /\ loads[1].status = "resolved"
  /\ disposeCount[1] = 1
  /\ loads[2].url = NoUrl
  /\ camera = DefaultCamera
  /\ gridY = 0

\* C10: when the container of the latest request is loaded (onModelLoaded(true)
\* made, rendering-mode effect not pending), every material of its non-grid
\* meshes carries the flags of the selected rendering style.
C10_LoadedContainerCarriesStyle ==
  ( /\ Latest > 0
    /\ loads[Latest].status = "resolved"
    /\ loadedAssetContainerRef = Latest
    /\ effectDeps = << renderingMode, isCurrentModelActuallyLoaded, modelFileExtension >> )
  => \A m \in StyledMaterials(Asset(loads[Latest].url).meshes, materials[Latest]) :
       CarriesStyle(materials[Latest][m], renderingMode)

\* The flags a rendering style decides.
Flags(mat) == << mat.wireframe, mat.unlit, mat.disableLighting, mat.alpha >>

FlagsOf(mats) == [m \in DOMAIN mats |-> Flags(mats[m])]

\* C11: shaded, then wireframe, then shaded again, applied to a container,
\* leaves every material with the flags (wireframe, unlit, disableLighting,
\* alpha) it had after the first shaded, before wireframe was applied.
C11_ShadedWireframeShadedRestores ==
  LET n == Len(trial.applied)
  IN  ( /\ trial.routine = "applyRenderingModeStyle"
        /\ n >= 3
        /\ SubSeq(trial.applied, n - 2, n) = << "shaded", "wireframe", "shaded" >> )
      => FlagsOf(trial.results[n]) = FlagsOf(trial.results[n - 2])

\* The three styles were applied to the .glb container, wireframe changed the
\* flags of its materials, and the second shaded brought them back.
C11_Witness ==
  /\ trial.routine = "applyRenderingModeStyle"
  /\ trial.url = UrlGlb
  /\ trial.ext = ".glb"
  /\ trial.applied = << "shaded", "wireframe", "shaded" >>
  /\ \A m \in {"pbr", "blend"} :
       /\ trial.results[2][m].wireframe /\ trial.results[2][m].unlit
       /\ ~trial.results[3][m].wireframe /\ ~trial.results[3][m].unlit
  /\ FlagsOf(trial.results[3]) = FlagsOf(trial.results[1])

\* C12: apply(style, container) is memoryless and idempotent: the flags after
\* applying a style are those the style gives the freshly loaded container,
\* whatever was applied before, and applying the style once more changes no
\* flag; this for every material and every format hint.
C12_MemorylessIdempotent ==
  LET n == Len(trial.applied)
      fresh == DoubleSided(Asset(trial.url).materials)
      again(mats) == applyRenderingModeStyle(trial.applied[n], Asset(trial.url).meshes,
                                             mats, trial.ext)
  IN  (trial.routine = "applyRenderingModeStyle" /\ n >= 1)
      => /\ FlagsOf(trial.results[n]) = FlagsOf(again(fresh))
         /\ FlagsOf(again(trial.results[n])) = FlagsOf(trial.results[n])

\* C13: the camera framing routine run twice in a row on an unchanged
\* container gives the camera target, the camera radius and the grid offset
\* it gave the first time.
C13_FramingIdempotent ==
  (trial.routine = "frame" /\ Len(trial.results) >= 2) =>
    \A i \in 2..Len(trial.results) : trial.results[i] = trial.results[i - 1]

\* The .glb container was framed twice from an orbited pose; the first run
\* moved the camera onto the visible, enabled mesh and the grid under it.
C13_Witness ==
  /\ trial.routine = "frame"
  /\ trial.url = UrlGlb
  /\ trial.hidden = {}
  /\ trial.start = OrbitedCamera
  /\ Len(trial.results) = 2
  /\ trial.results[1][1].target = <<0, 100, 0>>
  /\ trial.results[1][1].radius = 346
  /\ trial.results[1][2] = -1
  /\ trial.results[2] = trial.results[1]

\* The container load r resolves with has no mesh that is visible and enabled
\* (it may have no mesh at all).
NothingToFrame(r) == visibleEnabledMeshes(Asset(loads[r].url).meshes) = << >>

\* C14: a load that resolves with no mesh, or with no visible and enabled
\* mesh, is no error: its only onModelLoaded call is onModelLoaded(true), and
\* its .then handler leaves the camera at the default pose (target origin,
\* radius 10) and the grid at y = 0.
C14_NothingToFrameIsNoError ==
  /\ [](\A r \in DOMAIN loads :
          (loads[r].status = "resolved" /\ NothingToFrame(r)) =>
            onModelLoaded[r] = << [success |-> TRUE, message |-> ""] >>)
  /\ [][\A r \in DOMAIN loads :
          (Settles(r, "resolved") /\ NothingToFrame(r)) =>
            (camera' = DefaultCamera /\ gridY' = 0)]_vars

\* The container with only hidden meshes was loaded after the .glb model had
\* been framed, and the camera is back at the default pose.
C14_Witness ==
  /\ Latest = 2
  /\ loads[1].url = UrlGlb
  /\ loads[1].status = "resolved"
  /\ loads[2].url = UrlHidden
  /\ loads[2].status = "resolved"
  /\ onModelLoaded[2] = << [success |-> TRUE, message |-> ""] >>
  /\ camera = DefaultCamera
  /\ gridY = 0

\* The duration of a group by the frame rate that group declares itself, 60
\* when it declares none, in milliseconds.
OwnDuration(group) ==
  (group.to * 1000) \div (IF group.frameRate > 0 THEN group.frameRate ELSE DefaultFrameRate)

\* C15: for a container with one or more animation groups the duration
\* reported by onAnimationsAvailable(true, d) is the largest of the groups'
\* durations, each group's duration being its last frame over the frame rate
\* of that group's own first channel, or over 60 when the group declares none
\* (120 frames at 30 fps give 4.0 s).
C15_DurationByOwnFrameRate ==
  (trial.routine = "animationInit" /\ trial.results # << >>) =>
    /\ \A g \in DOMAIN trial.groups :
         OwnDuration(trial.groups[g]) <= trial.results[1][2]
    /\ \E g \in DOMAIN trial.groups :
         OwnDuration(trial.groups[g]) = trial.results[1][2]

\* The container load r resolves with has animation groups.
HasGroups(r) == Asset(loads[r].url).animationGroups # << >>

\* C19: from a load request until a load of it with animation groups has
\* succeeded (so also after it has failed, and after it has succeeded
\* without groups) the playing flag is false, the total duration is 0, no
\* animation groups are held and the last onAnimationsAvailable call was
\* onAnimationsAvailable(false, 0).
C19_TimelineEmptyUntilGroupsLoaded ==
  (Latest > 0 /\ ~(loads[Latest].status = "resolved" /\ HasGroups(Latest))) =>
    /\ isPlayingInternalRef = FALSE
    /\ totalDurationSecondsRef = 0
    /\ animationGroupsRef = 0
    /\ animationsHeld.available = FALSE
    /\ animationsHeld.duration = 0

\* C20: a container that resolves with no animation group is reported with
\* onModelLoaded(true) and onAnimationsAvailable(false, 0), no
\* onModelLoaded(false) is ever made for it, and after its .then handler the
\* synchronizer is idle: it holds no animation groups.
C20_NoGroupsIsIdleNotFailure ==
  /\ [](\A r \in DOMAIN loads :
          (loads[r].status = "resolved" /\ ~HasGroups(r)) =>
            onModelLoaded[r] = << [success |-> TRUE, message |-> ""] >>)
  /\ [][\A r \in DOMAIN loads :
          (Settles(r, "resolved") /\ ~HasGroups(r)) =>
            /\ animationsHeld' = [by |-> r, available |-> FALSE, duration |-> 0]
            /\ animationGroupsRef' = 0]_vars

\* The synchronizer holds one group, it plays, and onAnimationStateChange(true)
\* was the last state reported.
Playing ==
  /\ Len(HeldGroups) = 1
  /\ isPlaying(HeldGroups[1])
  /\ isPlayingInternalRef
  /\ onAnimationStateChange = << TRUE >>

\* Every group that plays was started by play(true): it loops, so the
\* observer's branch for a non-looping group at its end is never taken.
EveryPlayingGroupLoops ==
  \A r \in DOMAIN groupStates : \A i \in DOMAIN groupStates[r] :
    isPlaying(groupStates[r][i]) => groupStates[r][i].loopAnimation

\* C16: requestPlay(true) on a loaded model with one animation group calls
\* onAnimationStateChange(true); and with frames being rendered the playback
\* then comes to its end by itself: unless a command stops or replaces it
\* first, onAnimationStateChange(false) is eventually called.
C16_PlaybackEndsByItself ==
  /\ [][(Len(HeldGroups) = 1 /\ requestPlayAnimation' = << TRUE >>
           /\ requestPlayAnimation # << TRUE >>)
         => onAnimationStateChange' = << TRUE >>]_vars
  /\ (Playing ~> (onAnimationStateChange = << FALSE >> \/ ~Playing))

\* C18: with groups held and a total duration above 0, requestSeek(p) calls
\* onAnimationProgressUpdate(p, p/100 * total, total) at once and moves every
\* held group to the frame p/100 * total * frameRate, the frame whose
\* progress is p.
C18_SeekMovesEveryGroup ==
  [][(requestAnimationSeek' # requestAnimationSeek /\ animationGroupsRef # 0
        /\ totalDurationSecondsRef > 0)
     => LET p == requestAnimationSeek'[1]
        IN  /\ onAnimationProgressUpdate' =
                 << p, (p * totalDurationSecondsRef) \div 100, totalDurationSecondsRef >>
            /\ \A i \in DOMAIN HeldGroups :
                 /\ groupStates'[animationGroupsRef][i].frame = targetFrame(p)
                 /\ TickProgress(groupStates'[animationGroupsRef][i].frame)[1] = p]_vars

\* A step of handleToggleMeshVisibility that changes the visibility state.
ToggleStep ==
  /\ loads' = loads
  /\ << hiddenMeshIds', isSoloActive' >> # << hiddenMeshIds, isSoloActive >>

\* C21: with nothing hidden and solo inactive, toggling mesh m without the
\* solo modifier makes the hidden set {m}; toggling mesh s with the solo
\* modifier makes the hidden set all mesh ids of the hierarchy, at every
\* depth, except s, and makes solo active.
C21_ToggleHidesOneSoloHidesOthers ==
  [][(hiddenMeshIds = {} /\ ~isSoloActive /\ ToggleStep)
     => IF lastToggle'[2]
        THEN /\ hiddenMeshIds' = MeshNodeIds(modelHierarchy) \ {lastToggle'[1]}
             /\ isSoloActive'
        ELSE /\ hiddenMeshIds' = {lastToggle'[1]}
             /\ ~isSoloActive']_vars

\* In the .glb model, whose meshes are children of the root node, Cube was
\* soloed from the empty hidden set: Glass is hidden and solo is active.
C21_Witness ==
  /\ Latest = 1
  /\ loads[1].url = UrlGlb
  /\ lastToggle = << 12, TRUE, {} >>
  /\ hiddenMeshIds = {13}
  /\ isSoloActive

\* C22: activating solo and then clearing it (a solo toggle while solo is
\* active) leaves the hidden set that was in effect before solo was
\* activated.  While solo is active the last call is the one that
\* activated it, so lastToggle[3] is that earlier hidden set.
C22_ClearingSoloRestoresHidden ==
  [][(isSoloActive /\ ToggleStep /\ lastToggle'[2])
     => hiddenMeshIds' = lastToggle[3]]_vars

\* While solo is active, the last call is a solo toggle issued while solo
\* was inactive (what C22's reading of lastToggle rests on).
SoloActiveAfterActivation ==
  isSoloActive => (lastToggle # << >> /\ lastToggle[2])

\* The mesh ids of the container requested last.
LatestMeshIds ==
  IF Latest = 0 THEN {} ELSE MeshNodeIds(hierarchyRoots(Asset(loads[Latest].url)))

\* C23: the hidden set is cleared on every new load request and on a failed
\* load, so every hidden id is the id of a mesh of the container requested
\* last, never of a mesh of an earlier container.
C23_HiddenIdsOfLatestContainer ==
  hiddenMeshIds \subseteq LatestMeshIds

\* C24: after a style is applied, every material of every non-grid mesh
\* (every sub-material of a multi-material) carries the flags of the style:
\* shaded is wireframe off and lit, non-shaded is wireframe off and unlit,
\* wireframe is wireframe on and unlit.
C24_EveryMaterialCarriesStyle ==
  LET n == Len(trial.applied)
      meshes == Asset(trial.url).meshes
  IN  (trial.routine = "applyRenderingModeStyle" /\ n >= 1)
      => \A m \in StyledMaterials(meshes, trial.results[n]) :
           CarriesStyle(trial.results[n][m], trial.applied[n])

\* The steps section 3 of the specification orders, as the handler names them.
OrderedSteps ==
  << "addAllToScene", "frame", "applyRenderingModeStyle", "onModelHierarchyReady",
     "initialise animation groups", "onAnimationsAvailable" >>

\* The steps of OrderedSteps a handler took come in the order of OrderedSteps.
InClaimedOrder(steps) ==
  LET named == SelectSeq(steps, LAMBDA st : st \in Range(OrderedSteps))
      pos(st) == CHOOSE k \in DOMAIN OrderedSteps : OrderedSteps[k] = st
  IN  /\ \A i, j \in DOMAIN named : i < j => pos(named[i]) < pos(named[j])
      /\ \A st \in Range(OrderedSteps) \ {"initialise animation groups"} :
            st \in Range(named)

\* C25: when the load requested last succeeds, its handler adds the
\* container to the scene, frames the camera, applies the style selected at
\* that moment, emits the hierarchy and initialises the animation, in this
\* order.
C25_StepsInOrderWithCurrentStyle ==
  [][\A r \in DOMAIN loads :
       (Settles(r, "resolved") /\ r = Latest)
       => /\ InClaimedOrder(loads'[r].steps)
          /\ loads[r].renderingMode = renderingMode]_vars

\* The same without the style: the order alone.
StepsInOrder ==
  [][\A r \in DOMAIN loads :
       Settles(r, "resolved") => InClaimedOrder(loads'[r].steps)]_vars

\* C26: with animation groups held, requestPlay(true) sets the playing flag,
\* leaves every group playing in a loop and emits
\* onAnimationStateChange(true); requestPlay(false) leaves every group
\* paused, clears the flag and emits onAnimationStateChange(false); after
\* either, every held group is playing exactly when the flag is true.
C26_PlayCommandSetsFlagAndGroups ==
  [][(animationGroupsRef # 0 /\ requestPlayAnimation' # requestPlayAnimation)
     => LET want == requestPlayAnimation'[1]
            groups == groupStates'[animationGroupsRef]
        IN  /\ isPlayingInternalRef' = want
            /\ onAnimationStateChange' = << want >>
            /\ \A i \in DOMAIN groups :
                  /\ isPlaying(groups[i]) = want
                  /\ want => groups[i].loopAnimation
                  /\ isPlaying(groups[i]) = isPlayingInternalRef']_vars

\* requestPlay(false) has paused the playing group of the loaded model.
C26_Witness ==
  /\ animationGroupsRef # 0
  /\ requestPlayAnimation = << FALSE >>
  /\ onAnimationStateChange = << FALSE >>
  /\ ~isPlayingInternalRef
  /\ Len(HeldGroups) = 1
  /\ HeldGroups[1].isStarted /\ HeldGroups[1].isPaused

\* C27: after requestSeek(p) on held groups with a duration, every group is
\* at the target frame, and it is playing exactly when playback should
\* continue: the play flag passed is true, or none was passed and the group
\* was playing before the seek; with a play flag of false no group plays.
C27_SeekMovesAndResumes ==
  [][(requestAnimationSeek' # requestAnimationSeek /\ SeekRuns(requestAnimationSeek'))
     => LET before == groupStates[animationGroupsRef]
            after == groupStates'[animationGroupsRef]
        IN  \A i \in DOMAIN after :
              /\ after[i].frame = targetFrame(requestAnimationSeek'[1])
              /\ isPlaying(after[i]) =
                    (\/ requestPlayAnimation = << TRUE >>
                     \/ requestPlayAnimation = << >> /\ isPlaying(before[i]))]_vars

\* The same for groups that were started before the seek and without the
\* case of a play flag of true on a group that was not playing.
SeekOfStartedGroups ==
  [][(requestAnimationSeek' # requestAnimationSeek /\ SeekRuns(requestAnimationSeek'))
     => LET before == groupStates[animationGroupsRef]
            after == groupStates'[animationGroupsRef]
        IN  \A i \in DOMAIN after :
              before[i].isStarted
              => /\ after[i].frame = targetFrame(requestAnimationSeek'[1])
                 /\ isPlaying(after[i]) =
                       (isPlaying(before[i]) /\ requestPlayAnimation # << FALSE >>)]_vars

\* C28: every progress update emitted, by a frame tick or by a seek, has a
\* percentage within 0..100 and a current time that is this percentage of
\* the total duration, within 0..total.
C28_ProgressWithinBounds ==
  onAnimationProgressUpdate # << >>
  => LET percent == onAnimationProgressUpdate[1]
         currentSeconds == onAnimationProgressUpdate[2]
         totalSeconds == onAnimationProgressUpdate[3]
     IN  /\ percent \in 0..100
         /\ currentSeconds = (percent * totalSeconds) \div 100
         /\ currentSeconds \in 0..totalSeconds

\* C28's other half: a step that is no seek emits a progress update only
\* while the playing flag is set and groups with a duration are held.
TickEmitsOnlyWhilePlaying ==
  [][(onAnimationProgressUpdate' # onAnimationProgressUpdate
      /\ UNCHANGED << requestPlayAnimation, requestAnimationSeek >>)
     => /\ isPlayingInternalRef
        /\ animationGroupsRef # 0
        /\ totalDurationSecondsRef > 0]_vars

\* The nodes of a hierarchy, at every depth.
RECURSIVE AllNodes(_)
AllNodes(hierarchy) ==
  UNION { {hierarchy[i]} \cup AllNodes(hierarchy[i].children) : i \in DOMAIN hierarchy }

\* C29: for every node tree, no node of the emitted hierarchy, at any depth,
\* is a helper (camera, light1, light2, grid) or a node named by the
\* loader's convention __name__, and a node is admitted as a root exactly
\* when it would be admitted as a child.
C29_NoHelpersAndOnePredicate ==
  (trial.routine = "hierarchy" /\ trial.results # << >>)
  => LET emitted == trial.results[1]
         tree == trial.tree
     IN  /\ \A h \in AllNodes(emitted) :
               ~IsHelperName(h.name) /\ ~IsInternalName(h.name)
         /\ \A k \in DOMAIN tree.rootNodes :
               LET node == tree.nodes[tree.rootNodes[k]]
               IN  (\E i \in DOMAIN emitted : emitted[i].id = node.uniqueId)
                   <=> Admitted(node)

\* The part of C29 that holds: no emitted node carries the name of the
\* viewer's camera, lights or grid.
NoViewerHelperEmitted ==
  (trial.routine = "hierarchy" /\ trial.results # << >>)
  => \A h \in AllNodes(trial.results[1]) : ~IsHelperName(h.name)

\* C29's two halves apart.
NoInternalNameEmitted ==
  (trial.routine = "hierarchy" /\ trial.results # << >>)
  => \A h \in AllNodes(trial.results[1]) : ~IsInternalName(h.name)

RootsAdmittedAsChildren ==
  (trial.routine = "hierarchy" /\ trial.results # << >>)
  => \A k \in DOMAIN trial.tree.rootNodes :
       LET node == trial.tree.nodes[trial.tree.rootNodes[k]]
       IN  (\E i \in DOMAIN trial.results[1] : trial.results[1][i].id = node.uniqueId)
           <=> Admitted(node)

\* The meshes of a frame trial that are visible and enabled, and the lowest
\* Y of their world boxes.
ShownMeshes ==
  LET meshes == WithHidden(Asset(trial.url).meshes, trial.hidden)
  IN  { i \in DOMAIN meshes :
          /\ meshes[i].isVisible /\ meshes[i].isEnabled
          /\ ~IsHelperName(meshes[i].name) /\ ~IsInternalName(meshes[i].name) }

LowestY ==
  LET meshes == Asset(trial.url).meshes
  IN  CHOOSE y \in { meshes[i].minimumWorld[2] : i \in ShownMeshes } :
        \A i \in ShownMeshes : y <= meshes[i].minimumWorld[2]

\* C30 as stated: after framing a non-empty set of visible, enabled meshes
\* the grid's vertical position is exactly the minimum Y of the union box
\* of those meshes.
C30_GridExactlyAtMinimumY ==
  (trial.routine = "frame" /\ trial.results # << >> /\ ShownMeshes # {})
  => trial.results[1][2] = LowestY

\* C30, amended: after framing a non-empty set of visible, enabled meshes
\* the grid's vertical position is the minimum Y of the union box of those
\* meshes less 0.01; hidden or disabled meshes do not influence it.
C30_GridJustBelowMinimumY ==
  (trial.routine = "frame" /\ trial.results # << >> /\ ShownMeshes # {})
  => trial.results[1][2] = LowestY - GridOffset

\* The .glb model framed: the grid is just below Cube, whose box starts at
\* 0, and not below the invisible Glass, whose box starts at -3.
C30_Witness ==
  /\ trial.routine = "frame"
  /\ trial.url = UrlGlb
  /\ trial.hidden = {}
  /\ Len(trial.results) = 1
  /\ ShownMeshes = {1}
  /\ Asset(trial.url).meshes[2].minimumWorld[2] = -300
  /\ trial.results[1][2] = -1

\* The corners of the union box of the shown meshes of a frame trial.
BoxLow(axis) ==
  LET meshes == Asset(trial.url).meshes
  IN  CHOOSE v \in { meshes[i].minimumWorld[axis] : i \in ShownMeshes } :
        \A i \in ShownMeshes : v <= meshes[i].minimumWorld[axis]

BoxHigh(axis) ==
  LET meshes == Asset(trial.url).meshes
  IN  CHOOSE v \in { meshes[i].maximumWorld[axis] : i \in ShownMeshes } :
        \A i \in ShownMeshes : v >= meshes[i].maximumWorld[axis]

BoxCentre == [axis \in 1..3 |-> (BoxLow(axis) + BoxHigh(axis)) \div 2]

FramedTargetAndLimitedRadius ==
  (trial.routine = "frame" /\ trial.results # << >> /\ ShownMeshes # {})
  => /\ trial.results[1][1].target = BoxCentre
     /\ checkLimits(trial.results[1][1]).radius >= LowerRadiusLimit

\* The reason the loader rejected with, or the stock text when it gave none.
LoaderReason(error) ==
  IF error.text # "" THEN error.text ELSE "Unknown error during model loading."

\* C32: on a load failure the emitted message is the loader's reason; the
\* hint that sibling files are not packaged with a local file follows it
\* when the format hint is .obj and the source is an embedded data payload,
\* and the message is the bare reason for .glb and .gltf.
C32_MessageIsReasonWithObjHint ==
  (trial.routine = "userMessage" /\ trial.results # << >>)
  => LET message == trial.results[1]
         reason == LoaderReason(trial.error)
     IN  /\ StartsWith(message, reason)
         /\ (trial.ext = ".obj" /\ trial.isDataUrl)
              => message = reason \o DataUrlHint(".obj")
         /\ ~(trial.ext = ".obj" /\ trial.isDataUrl)
              => ~EndsWith(message, DataUrlHint(trial.ext))
         /\ trial.ext \in {".glb", ".gltf"} => message = reason

\* The loader rejected an embedded .obj; the message is its reason and the
\* hint.
C32_Witness ==
  /\ trial.routine = "userMessage"
  /\ trial.ext = ".obj"
  /\ trial.isDataUrl
  /\ trial.error.text = "Unable to load from file"
  /\ trial.results = << "Unable to load from file" \o DataUrlHint(".obj") >>

\* An embedded .glb was rejected: the message is the bare reason.
EmbeddedGlbRejected ==
  /\ trial.routine = "userMessage"
  /\ trial.ext = ".glb"
  /\ trial.isDataUrl
  /\ trial.results = << "importer failed" >>

\* C33: for a single load request at most one onModelLoaded call is ever
\* made, onModelLoaded(true) or onModelLoaded(false, message) and never
\* both, also when a listener throws after onModelLoaded(true).
C33_AtMostOneOnLoaded ==
  \A r \in DOMAIN loads : Len(onModelLoaded[r]) <= 1

\* C34: a play or pause command never changes the animation position: after
\* it every group is at the frame it had just before, no group is back at
\* the target of an earlier seek, and no progress update is emitted.
C34_PlayPauseKeepsPosition ==
  [][(requestPlayAnimation' # requestPlayAnimation)
     => /\ \A r \in DOMAIN groupStates : \A i \in DOMAIN groupStates[r] :
             groupStates'[r][i].frame = groupStates[r][i].frame
        /\ onAnimationProgressUpdate' = onAnimationProgressUpdate]_vars

\* The same for commands given while no seek was ever requested.
PlayPauseKeepsPositionWithoutSeek ==
  [][(requestPlayAnimation' # requestPlayAnimation /\ requestAnimationSeek = << >>)
     => /\ \A r \in DOMAIN groupStates : \A i \in DOMAIN groupStates[r] :
             groupStates'[r][i].frame = groupStates[r][i].frame
        /\ onAnimationProgressUpdate' = onAnimationProgressUpdate]_vars

\* C35: the playing flag is true only while animation groups of the
\* container that is currently attached are held: never while no groups are
\* held, nor while the groups held are those of a container that has been
\* disposed or replaced.
C35_PlayingOnlyWhileActive ==
  isPlayingInternalRef
  => /\ animationGroupsRef # 0
     /\ animationGroupsRef = loadedAssetContainerRef
     /\ disposeCount[animationGroupsRef] = 0

\* The same while every load that has settled is the one requested last.
PlayingOnlyWhileActiveUnlessSuperseded ==
  (\A r \in DOMAIN loads : Superseded(r) => loads[r].status \in {"none", "pending"})
  => C35_PlayingOnlyWhileActive

\* The synchronizer is idle: no container is loaded, a load is in flight, or
\* the loaded container has no animation groups.
IdleState ==
  \/ loadedAssetContainerRef = 0
  \/ Latest > 0 /\ loads[Latest].status = "pending"
  \/ loadedAssetContainerRef # 0 /\ ~HasGroups(loadedAssetContainerRef)

PlayOrSeekCommand ==
  \/ requestPlayAnimation' # requestPlayAnimation
  \/ requestAnimationSeek' # requestAnimationSeek

\* C36: in the idle state requestPlay and requestSeek are no-ops: they
\* change no group and no flag and emit neither onAnimationStateChange nor
\* onAnimationProgressUpdate.
C36_IdleCommandsAreNoOps ==
  [][(IdleState /\ PlayOrSeekCommand)
     => UNCHANGED << groupStates, isPlayingInternalRef, onAnimationStateChange,
                     onAnimationProgressUpdate >>]_vars

\* The same with idle read as: no animation groups are held.
CommandsWithoutGroupsAreNoOps ==
  [][(animationGroupsRef = 0 /\ PlayOrSeekCommand)
     => UNCHANGED << groupStates, isPlayingInternalRef, onAnimationStateChange,
                     onAnimationProgressUpdate >>]_vars

\* C37: setRenderingStyle changes materials only: it issues no load,
\* disposes and replaces no container, and leaves the camera pose, the
\* emitted hierarchy and the animation timeline (playing flag, position,
\* duration) as they were.
C37_StyleChangesMaterialsOnly ==
  [][(renderingMode' # renderingMode)
     => UNCHANGED << modelUrl, modelFileExtension, loads, loadedAssetContainerRef,
                     sceneContainers, disposeCount, camera, gridY, onModelLoaded,
                     hierarchyHeld, hierarchyEmitted, animationsHeld,
                     animationGroupsRef, totalDurationSecondsRef, frameRateRef,
                     isPlayingInternalRef, groupStates, onAnimationStateChange,
                     onAnimationProgressUpdate >>]_vars

\* The .glb model is loaded and playing, half-way through, when wireframe is
\* selected: its materials are wireframe and it still plays.
C37_Witness ==
  /\ renderingMode = "wireframe"
  /\ Latest = 1
  /\ loads[1].url = UrlGlb
  /\ loadedAssetContainerRef = 1
  /\ materials[1]["pbr"].wireframe
  /\ isPlayingInternalRef
  /\ Len(HeldGroups) = 1
  /\ isPlaying(HeldGroups[1])
  /\ HeldGroups[1].frame = 60
  /\ camera # DefaultCamera

\* C38: the cleanup disposes the held container exactly once and leaves the
\* container reference null; afterwards a load that was in flight attaches
\* nothing to the disposed scene, retains no container and emits no callback.
C38_TeardownLeavesNothingBehind ==
  [][/\ (mounted /\ ~mounted')
        => /\ loadedAssetContainerRef' = 0
           /\ loadedAssetContainerRef # 0
                => disposeCount'[loadedAssetContainerRef] = 1
     /\ ~mounted
        => UNCHANGED << loadedAssetContainerRef, sceneContainers, disposeCount,
                        onModelLoaded, hierarchyHeld, hierarchyEmitted,
                        animationsHeld >>]_vars

\* The step of the cleanup itself: the held container is disposed once, the
\* reference is null and nothing is left in the scene.
TeardownDisposesHeldContainerOnce ==
  [][(mounted /\ ~mounted')
     => /\ loadedAssetContainerRef' = 0
        /\ sceneContainers' = {}
        /\ loadedAssetContainerRef # 0
             => disposeCount'[loadedAssetContainerRef] = 1]_vars

\* After the cleanup only the handlers of the loads that were in flight
\* still run.
OnlyLoadHandlersRunAfterTeardown ==
  [][~mounted => \E r \in DOMAIN loads :
                   loads[r].status = "pending" /\ loads'[r].status # "pending"]_vars

\* A container retained, and attached to the disposed scene, after the cleanup.
ContainerRetainedAfterTeardown ==
  ~mounted /\ loadedAssetContainerRef # 0 /\ loadedAssetContainerRef \in sceneContainers

\* C39: isLoading reflects the current request: it is true while the load of
\* the current request is in flight, whatever a superseded load does, and
\* false once the current request has completed or failed.
C39_IsLoadingReflectsCurrentRequest ==
  Latest # 0 =>
    /\ loads[Latest].status = "pending" => isLoading
    /\ loads[Latest].status \in {"resolved", "rejected"} => ~isLoading

\* Once the current request has completed or failed isLoading is false.
IsLoadingFalseOnceCurrentSettled ==
  (Latest # 0 /\ loads[Latest].status \in {"resolved", "rejected"}) => ~isLoading

\* isLoading is set by every request and cleared by nothing but the
\* completion or failure of a load.
IsLoadingSetAndClearedByLoads ==
  [][/\ Latest' # Latest => isLoading'
     /\ (isLoading /\ ~isLoading')
          => \E r \in DOMAIN loads : Settles(r, "resolved") \/ Settles(r, "rejected")]_vars

\* The second request is in flight and the page shows no loading state.
CurrentPendingNotLoading ==
  Latest = 2 /\ loads[2].status = "pending" /\ loads[1].status = "resolved" /\ ~isLoading

====
